---- MODULE Spec2Model ----
(***************************************************************************)
(* TaskFlow: the task store and hierarchy engine (class TaskManager of     *)
(* js/task-processor.js) as a state machine.  One action per static method *)
(* of TaskManager; every method runs to completion, so an action is one    *)
(* whole call.                                                             *)
(*                                                                         *)
(* A task text is a sequence of one-character strings.  Array positions    *)
(* are 1-based here and 0-based in the source; the arguments of            *)
(* reorderTasks are the source's 0-based indices.                          *)
(***************************************************************************)
EXTENDS Integers, Sequences, FiniteSets, TLC

VARIABLES
    tasks,             \* TaskManager.tasks: the ordered collection
    currentId,         \* TaskManager.currentId
    searchCache,       \* TaskManager.searchCache: entries in insertion order
    statsCache,        \* TaskManager.statsCache
    statsCacheTime,    \* TaskManager.statsCacheTime
    storage,           \* localStorage item 'taskflow-data'
    exported,          \* the string the last exportToJSON returned
    now,               \* Date.now()
    last,              \* the last call: method, id argument, result
    issued,            \* history: every id createTask has assigned
    issuedSinceReset,  \* history: ids assigned since the last clearAll / loadTasks / importFromJSON
    app                \* the TaskFlowApp controller: timers, frames and the rendered list

vars == <<tasks, currentId, searchCache, statsCache, statsCacheTime, storage, exported,
          now, last, issued, issuedSinceReset, app>>

(***************************************************************************)
(* Bounds of the model.                                                    *)
(***************************************************************************)
MaxTasks == 3          \* tasks held at once under Spec
MaxId == 3             \* createTask is explored while currentId <= MaxId under Spec
MaxLevel == 4          \* indentTask is explored while the task above is below MaxLevel under Spec
ArgsMaxTasks == 3      \* tasks held at once under SpecArgs
ArgsMaxId == 4         \* createTask is explored while currentId <= ArgsMaxId under SpecArgs
TreeMaxTasks == 4      \* tasks held at once under SpecTree
TreeMaxId == 5         \* createTask is explored while currentId <= TreeMaxId under SpecTree
StoreMaxTasks == 3     \* tasks held at once under SpecStore
StoreMaxId == 3        \* createTask is explored while currentId <= StoreMaxId under SpecStore
SearchMaxTasks == 2    \* tasks held at once under SpecSearch
SearchMaxId == 3       \* createTask is explored while currentId <= SearchMaxId under SpecSearch
SearchMaxCached == 2   \* searchTasks is explored while the cache holds fewer entries under SpecSearch
CacheMaxTasks == 2     \* tasks held at once under SpecCache
CacheMaxId == 3        \* createTask is explored while currentId <= CacheMaxId under SpecCache
CacheMaxLevel == 2     \* indentTask is explored while the task above is below CacheMaxLevel under SpecCache
StatsMaxTasks == 3     \* tasks held at once under SpecStats
StatsMaxId == 4        \* createTask is explored while currentId <= StatsMaxId under SpecStats
MaxNow == 100          \* the clock is advanced while it stays at or below MaxNow under SpecStats
EvictMaxTasks == 1     \* tasks held at once under SpecEvict
EvictMaxId == 2        \* createTask is explored while currentId <= EvictMaxId under SpecEvict
EvictMaxQuery == 102   \* the longest query searched under SpecEvict
PersistMaxTasks == 2   \* tasks held at once, createTask explored, under SpecPersist
PersistMaxId == 3      \* createTask is explored while currentId <= PersistMaxId under SpecPersist
EditMaxTasks == 2      \* tasks held at once under SpecEdit
EditMaxId == 2         \* createTask is explored while currentId <= EditMaxId under SpecEdit
LegacyMaxTasks == 2    \* tasks held at once under SpecLegacy
LegacyMaxId == 3       \* createTask is explored while currentId <= LegacyMaxId under SpecLegacy
ReorderMaxTasks == 3   \* elements held at once under SpecReorder
ReorderMaxId == 4      \* createTask is explored while currentId <= ReorderMaxId under SpecReorder
ReorderMaxIndex == 4   \* reorderTasks is explored with indices from -ReorderMaxIndex to ReorderMaxIndex
SubMaxTasks == 3       \* tasks held at once under SpecSubtasks
SubMaxId == 4          \* createTask is explored while currentId <= SubMaxId under SpecSubtasks

(***************************************************************************)
(* Values.                                                                 *)
(***************************************************************************)
Null == 0              \* null: a parentId of none; the ids start at 1
InitialId == 1         \* static currentId = 1
MaxIndent == 3         \* "Can only indent up to 3 levels deep"
NoStats == [kind |-> "null"]
NoRecord == [kind |-> "none"]          \* no item stored, nothing exported
Garbage == [kind |-> "garbage"]        \* a string JSON.parse rejects
OtherJson == [kind |-> "other"]        \* '{}': JSON with nothing under "tasks"
Undefined == -1                        \* a field that an object does not have
NullEntry == [kind |-> "null"]         \* null as an element of a parsed array
UndefinedEntry == [kind |-> "undefined"]   \* undefined as an element of the collection

Min(a, b) == IF a < b THEN a ELSE b
Max(a, b) == IF a > b THEN a ELSE b

SeqToSet(s) == {s[i] : i \in 1..Len(s)}

\* String.prototype.trim on a sequence of characters
RECURSIVE TrimLeft(_)
TrimLeft(s) == IF s # <<>> /\ Head(s) = " " THEN TrimLeft(Tail(s)) ELSE s

RECURSIVE TrimRight(_)
TrimRight(s) ==
    IF s # <<>> /\ s[Len(s)] = " " THEN TrimRight(SubSeq(s, 1, Len(s) - 1)) ELSE s

\* mutant of Trim: the text taken as it is
Untrimmed(s) == s

Trim(s) == TrimRight(TrimLeft(s))

\* this.tasks.findIndex(t => t.id === id): the first position, 0 for none (-1 in the source)
FindIndexIn(ts, id) ==
    IF \E i \in 1..Len(ts) : ts[i].id = id
    THEN CHOOSE i \in 1..Len(ts) :
            /\ ts[i].id = id
            /\ \A j \in 1..(i - 1) : ts[j].id # id
    ELSE 0

FindIndex(id) == FindIndexIn(tasks, id)

\* this.tasks.find(t => t.id === id) finds a task
Exists(id) == FindIndex(id) # 0

\* this.tasks.find(t => t.id === id), for an id that Exists
Find(id) == tasks[FindIndex(id)]

\* subtasks.map(t => t.id)
TaskIds(ts) == [i \in 1..Len(ts) |-> ts[i].id]

(***************************************************************************)
(* invalidateCache                                                         *)
(***************************************************************************)
\* mutant of InvalidateCache: the search cache kept
InvalidateStatsOnly ==
    /\ statsCache' = NoStats
    /\ UNCHANGED searchCache

InvalidateCache ==
    /\ statsCache' = NoStats
    /\ searchCache' = <<>>

\* mutant of CachesUnchanged: both caches emptied
CachesCleared ==
    /\ statsCache' = NoStats
    /\ searchCache' = <<>>
    /\ UNCHANGED statsCacheTime

CachesUnchanged == UNCHANGED <<searchCache, statsCache, statsCacheTime>>

\* arg: the id of the task the call was about (Null when no task has the id given),
\* the new id for createTask, the count for a call that returns a count;
\* before: the length of the collection when the call began
Called(op, arg, ret) ==
    /\ last' = [op |-> op, arg |-> arg, ret |-> ret, before |-> Len(tasks), val |-> <<>>]
    /\ IF app.mounted THEN TRUE ELSE app' = app

\* val: the list of tasks or the stats object a call returns, the payload or the text
\* a call was given, the id given to a call that found no task with it.
\* A call made while no controller is constructed leaves app as it is; a call made
\* by a controller's handler leaves app to the handler
CalledGiving(op, arg, ret, val) ==
    /\ last' = [op |-> op, arg |-> arg, ret |-> ret, before |-> Len(tasks), val |-> val]
    /\ IF app.mounted THEN TRUE ELSE app' = app

(***************************************************************************)
(* createTask(text, parentId = null, indentLevel = 0)                      *)
(***************************************************************************)
\* mutants of NewTaskId: the id taken from the length of the collection, and from
\* the largest id in the collection
NewTaskIdFromLength == Len(tasks) + 1

RECURSIVE LargestId(_)
LargestId(ts) == IF ts = <<>> THEN 0 ELSE Max(Head(ts).id, LargestId(Tail(ts)))

NewTaskIdFromLargest == LargestId(tasks) + 1

NewTaskId == currentId

NewTask(text, parentId, indentLevel) ==
    [id |-> NewTaskId,
     text |-> Trim(text),
     completed |-> FALSE,
     parentId |-> parentId,
     indentLevel |-> indentLevel,
     createdAt |-> now,
     updatedAt |-> now]

CreateTask(text, parentId, indentLevel) ==
    IF Trim(text) = <<>>
    THEN /\ CalledGiving("createTask", Null, "null", text)
         /\ UNCHANGED <<tasks, currentId, storage, exported, now, issued, issuedSinceReset>>
         /\ CachesUnchanged
    ELSE /\ tasks' = Append(tasks, NewTask(text, parentId, indentLevel))
         /\ currentId' = currentId + 1
         /\ InvalidateCache
         /\ issued' = issued \cup {NewTaskId}
         /\ issuedSinceReset' = issuedSinceReset \cup {NewTaskId}
         /\ CalledGiving("createTask", NewTaskId, "task", text)
         /\ UNCHANGED <<statsCacheTime, storage, exported, now>>

(***************************************************************************)
(* updateTask(id, text)                                                    *)
(***************************************************************************)
\* mutant of UpdatedTasks: the text set, updatedAt left as it was
UpdatedTasksKeepingTime(id, text) == [tasks EXCEPT ![FindIndex(id)].text = Trim(text)]

UpdatedTasks(id, text) ==
    [tasks EXCEPT ![FindIndex(id)].text = Trim(text), ![FindIndex(id)].updatedAt = now]

UpdateTask(id, text) ==
    IF Exists(id)
    THEN /\ tasks' = UpdatedTasks(id, text)
         /\ InvalidateCache
         /\ CalledGiving("updateTask", id, "task", text)
         /\ UNCHANGED <<currentId, statsCacheTime, storage, exported, now, issued, issuedSinceReset>>
    ELSE /\ CalledGiving("updateTask", Null, "null", id)
         /\ UNCHANGED <<tasks, currentId, storage, exported, now, issued, issuedSinceReset>>
         /\ CachesUnchanged

(***************************************************************************)
(* getSubtaskIds(parentId): the recursive walk.  The walk of a parentId    *)
(* relation with a cycle through parentId never returns: the call ends in  *)
(* a RangeError (stack overflow), here ok = FALSE.  A chain of more than   *)
(* Len(ts) nested calls visits some task twice, so it is such a cycle.     *)
(***************************************************************************)
Subtasks(ts, parentId) == SelectSeq(ts, LAMBDA t : t.parentId = parentId)

RECURSIVE GetSubtaskIdsIn(_, _, _)
RECURSIVE WalkEach(_, _, _, _)

\* subtasks.forEach(subtask => ids.push(...this.getSubtaskIds(subtask.id)))
WalkEach(ts, subs, acc, depth) ==
    IF subs = <<>> THEN [ok |-> TRUE, ids |-> acc]
    ELSE LET r == GetSubtaskIdsIn(ts, Head(subs).id, depth + 1)
         IN  IF r.ok THEN WalkEach(ts, Tail(subs), acc \o r.ids, depth)
             ELSE [ok |-> FALSE, ids |-> <<>>]

GetSubtaskIdsIn(ts, parentId, depth) ==
    IF depth > Len(ts) THEN [ok |-> FALSE, ids |-> <<>>]
    ELSE LET subtasks == Subtasks(ts, parentId)
         IN  WalkEach(ts, subtasks, TaskIds(subtasks), depth)

\* mutant of GetSubtaskIds: the direct subtasks only, no recursion
GetDirectSubtaskIds(ts, parentId) ==
    [ok |-> TRUE, ids |-> TaskIds(Subtasks(ts, parentId))]

GetSubtaskIds(ts, parentId) == GetSubtaskIdsIn(ts, parentId, 0)

(***************************************************************************)
(* toggleComplete(id)                                                      *)
(***************************************************************************)
\* task.completed = newCompletedState; task.updatedAt = Date.now()
SetCompleted(ts, id, state) ==
    LET i == FindIndexIn(ts, id)
    IN  IF i = 0 THEN ts
        ELSE [ts EXCEPT ![i].completed = state, ![i].updatedAt = now]

\* subtaskIds.forEach: the task found for each id is completed if it is not yet
CompleteSubtasks(ts, ids) ==
    [i \in 1..Len(ts) |->
        IF /\ ts[i].id \in SeqToSet(ids)
           /\ FindIndexIn(ts, ts[i].id) = i
           /\ ~ts[i].completed
        THEN [ts[i] EXCEPT !.completed = TRUE, !.updatedAt = now]
        ELSE ts[i]]

\* mutant of UncheckParent: the uncheck carried on up the chain of parents
RECURSIVE UncheckAncestors(_, _)
UncheckAncestors(ts, parentId) ==
    LET p == FindIndexIn(ts, parentId)
    IN  IF parentId # Null /\ p # 0 /\ ts[p].completed
        THEN UncheckAncestors(SetCompleted(ts, parentId, FALSE), ts[p].parentId)
        ELSE ts

\* "If uncompleting a task that has a parent, uncheck the parent"
UncheckParent(ts, parentId) ==
    LET p == FindIndexIn(ts, parentId)
    IN  IF parentId # Null /\ p # 0 /\ ts[p].completed
        THEN SetCompleted(ts, parentId, FALSE)
        ELSE ts

\* "check if all siblings are completed to auto-complete parent"
AllSiblingsCompleted(ts, parentId) ==
    \A i \in 1..Len(ts) : ts[i].parentId = parentId => ts[i].completed

AutoCompleteParent(ts, parentId) ==
    LET p == FindIndexIn(ts, parentId)
    IN  IF parentId # Null /\ p # 0 /\ ~ts[p].completed /\ AllSiblingsCompleted(ts, parentId)
        THEN SetCompleted(ts, parentId, TRUE)
        ELSE ts

\* The cached result lists hold the task objects of the collection themselves (every
\* call that removes or replaces a task object empties the cache, loadTasks and
\* importFromJSON apart): a write to a task that is not followed by invalidateCache
\* shows in the cached lists.
SeenThroughCache(ts) ==
    [e \in 1..Len(searchCache) |->
        [searchCache[e] EXCEPT !.results =
            [n \in 1..Len(@) |->
                IF FindIndexIn(ts, @[n].id) # 0 THEN ts[FindIndexIn(ts, @[n].id)] ELSE @[n]]]]

\* the collection after toggleComplete(id) of an existing task, and whether the
\* descendant walk overflowed the stack (the call then ends there, by a RangeError)
ToggleResult(id) ==
    LET task == Find(id)
        newCompletedState == ~task.completed
        flipped == SetCompleted(tasks, id, newCompletedState)
        walk == GetSubtaskIds(flipped, id)
    IN  IF newCompletedState
        THEN IF walk.ok
             THEN [threw |-> FALSE,
                   tasks |-> AutoCompleteParent(CompleteSubtasks(flipped, walk.ids),
                                                task.parentId)]
             ELSE [threw |-> TRUE, tasks |-> flipped]
        ELSE [threw |-> FALSE, tasks |-> UncheckParent(flipped, task.parentId)]

ToggleComplete(id) ==
    IF Exists(id)
    THEN /\ tasks' = ToggleResult(id).tasks
         /\ IF ToggleResult(id).threw
            THEN /\ Called("toggleComplete", id, "throw")
                 /\ searchCache' = SeenThroughCache(ToggleResult(id).tasks)
                 /\ UNCHANGED <<statsCache, statsCacheTime>>
            ELSE /\ Called("toggleComplete", id, "task")
                 /\ InvalidateCache
                 /\ UNCHANGED statsCacheTime
         /\ UNCHANGED <<currentId, storage, exported, now, issued, issuedSinceReset>>
    ELSE /\ CalledGiving("toggleComplete", Null, "null", id)
         /\ UNCHANGED <<tasks, currentId, storage, exported, now, issued, issuedSinceReset>>
         /\ CachesUnchanged

(***************************************************************************)
(* deleteTask(id)                                                          *)
(***************************************************************************)
\* this.tasks.splice(index, 1)
RemoveAt(ts, i) == SubSeq(ts, 1, i - 1) \o SubSeq(ts, i + 1, Len(ts))

\* mutant of DeletedSubtaskIds: the direct subtasks only, no recursion
DirectSubtaskIds(id) ==
    [ok |-> TRUE,
     ids |-> TaskIds(Subtasks(RemoveAt(tasks, FindIndex(id)), id))]

\* the walk runs on the collection the target has already been spliced out of
DeletedSubtaskIds(id) == GetSubtaskIds(RemoveAt(tasks, FindIndex(id)), id)

TasksAfterDelete(id) ==
    LET spliced == RemoveAt(tasks, FindIndex(id))
        subtaskIds == SeqToSet(DeletedSubtaskIds(id).ids)
    IN  SelectSeq(spliced, LAMBDA t : t.id \notin subtaskIds)

DeleteTask(id) ==
    IF Exists(id)
    THEN IF DeletedSubtaskIds(id).ok
         THEN /\ tasks' = TasksAfterDelete(id)
              /\ InvalidateCache
              /\ Called("deleteTask", id, "task")
              /\ UNCHANGED <<currentId, statsCacheTime, storage, exported, now, issued, issuedSinceReset>>
         ELSE /\ tasks' = RemoveAt(tasks, FindIndex(id))
              /\ Called("deleteTask", id, "throw")
              /\ CachesUnchanged
              /\ UNCHANGED <<currentId, storage, exported, now, issued, issuedSinceReset>>
    ELSE /\ CalledGiving("deleteTask", Null, "null", id)
         /\ UNCHANGED <<tasks, currentId, storage, exported, now, issued, issuedSinceReset>>
         /\ CachesUnchanged

(***************************************************************************)
(* indentTask(id)                                                          *)
(***************************************************************************)
\* mutant of IndentFails: the position checked, the level not
IndentFailsFirstOnly(id) == FindIndex(id) <= 1

\* taskIndex <= 0 (not found, or the first task) or task.indentLevel >= 3
IndentFails(id) ==
    IF FindIndex(id) <= 1 THEN TRUE ELSE Find(id).indentLevel >= MaxIndent

\* mutant of IndentedTask: one level below the task's own level
IndentedByOne(id) ==
    [Find(id) EXCEPT !.indentLevel = Find(id).indentLevel + 1,
                     !.parentId = tasks[FindIndex(id) - 1].id,
                     !.updatedAt = now]

IndentedTask(id) ==
    LET previousTask == tasks[FindIndex(id) - 1]
    IN  [Find(id) EXCEPT !.indentLevel = previousTask.indentLevel + 1,
                         !.parentId = previousTask.id,
                         !.updatedAt = now]

IndentTask(id) ==
    IF IndentFails(id)
    THEN /\ CalledGiving("indentTask", IF Exists(id) THEN id ELSE Null, "null", id)
         /\ UNCHANGED <<tasks, currentId, storage, exported, now, issued, issuedSinceReset>>
         /\ CachesUnchanged
    ELSE /\ tasks' = [tasks EXCEPT ![FindIndex(id)] = IndentedTask(id)]
         /\ InvalidateCache
         /\ Called("indentTask", id, "task")
         /\ UNCHANGED <<currentId, statsCacheTime, storage, exported, now, issued, issuedSinceReset>>

(***************************************************************************)
(* outdentTask(id)                                                         *)
(***************************************************************************)
\* mutant of OutdentFails: a task of level 1 refused as well
OutdentFailsBelowTwo(id) == IF Exists(id) THEN Find(id).indentLevel <= 1 ELSE TRUE

OutdentFails(id) == IF Exists(id) THEN Find(id).indentLevel = 0 ELSE TRUE

\* mutant of ScanAbove: the scan from the top of the collection down to position i
ScanFromTop(ts, i, level) ==
    IF \E j \in 1..i : ts[j].indentLevel = level
    THEN CHOOSE j \in 1..i :
            /\ ts[j].indentLevel = level
            /\ \A k \in 1..(j - 1) : ts[k].indentLevel # level
    ELSE 0

\* for (let i = taskIndex - 1; i >= 0; i--): the nearest position above with the
\* wanted level, 0 for none
RECURSIVE ScanAbove(_, _, _)
ScanAbove(ts, i, level) ==
    IF i < 1 THEN 0
    ELSE IF ts[i].indentLevel = level THEN i
    ELSE ScanAbove(ts, i - 1, level)

\* mutant of OutdentedTask: the task reopened as it moves out
OutdentedAndReopened(id) ==
    [Find(id) EXCEPT !.indentLevel = Max(0, Find(id).indentLevel - 1),
                     !.parentId = Null,
                     !.completed = FALSE,
                     !.updatedAt = now]

OutdentedTask(id) ==
    LET task == Find(id)
        newLevel == Max(0, task.indentLevel - 1)
        above == ScanAbove(tasks, FindIndex(id) - 1, newLevel - 1)
        newParent == IF newLevel = 0 THEN Null
                     ELSE IF above # 0 THEN tasks[above].id
                     ELSE task.parentId
    IN  [task EXCEPT !.indentLevel = newLevel, !.parentId = newParent, !.updatedAt = now]

OutdentTask(id) ==
    IF OutdentFails(id)
    THEN /\ CalledGiving("outdentTask", IF Exists(id) THEN id ELSE Null, "null", id)
         /\ UNCHANGED <<tasks, currentId, storage, exported, now, issued, issuedSinceReset>>
         /\ CachesUnchanged
    ELSE /\ tasks' = [tasks EXCEPT ![FindIndex(id)] = OutdentedTask(id)]
         /\ InvalidateCache
         /\ Called("outdentTask", id, "task")
         /\ UNCHANGED <<currentId, statsCacheTime, storage, exported, now, issued, issuedSinceReset>>

(***************************************************************************)
(* clearCompleted()                                                        *)
(***************************************************************************)
CompletedCount == Len(SelectSeq(tasks, LAMBDA t : t.completed))

\* mutant of ActiveTasks: the direct subtasks of completed tasks removed with them
ActiveTasksWithoutOrphans ==
    SelectSeq(tasks, LAMBDA t :
        /\ ~t.completed
        /\ ~\E i \in 1..Len(tasks) : tasks[i].completed /\ tasks[i].id = t.parentId)

ActiveTasks == SelectSeq(tasks, LAMBDA t : ~t.completed)

ClearCompleted ==
    /\ tasks' = ActiveTasks
    /\ InvalidateCache
    /\ Called("clearCompleted", CompletedCount, "count")
    /\ UNCHANGED <<currentId, statsCacheTime, storage, exported, now, issued, issuedSinceReset>>

(***************************************************************************)
(* searchTasks(query).  The characters of the texts and queries here are   *)
(* letters, the space, "." and "(".                                        *)
(***************************************************************************)
CacheLimit == 100

\* String.prototype.toLowerCase, character by character
ToLowerCaseChar(c) ==
    CASE c = "A" -> "a"
      [] c = "B" -> "b"
      [] c = "C" -> "c"
      [] OTHER -> c

ToLowerCase(s) == [i \in 1..Len(s) |-> ToLowerCaseChar(s[i])]

\* String.prototype.includes
Includes(text, term) ==
    \E k \in 0..(Len(text) - Len(term)) : SubSeq(text, k + 1, k + Len(term)) = term

\* !query || !query.trim()
BlankQuery(query) == Trim(query) = <<>>

\* query.toLowerCase().trim()
SearchTerm(query) == Trim(ToLowerCase(query))

\* `${searchTerm}-${this.tasks.length}`: the term and the length determine the key
CacheKey(searchTerm) == [term |-> searchTerm, length |-> Len(tasks)]

CacheHas(key) == \E e \in 1..Len(searchCache) : searchCache[e].key = key

CacheGet(key) == searchCache[CHOOSE e \in 1..Len(searchCache) : searchCache[e].key = key].results

\* new RegExp(searchTerm.split('').join('.*'), 'i') throws a SyntaxError for a
\* pattern with a "(" that nothing closes
PatternThrows(searchTerm) == \E i \in 1..Len(searchTerm) : searchTerm[i] = "("

\* one character of the pattern against one character of the text, under the i
\* flag: "." matches any character, any other character of the alphabet itself
PatternCharMatches(p, c) == p = "." \/ ToLowerCaseChar(c) = ToLowerCaseChar(p)

\* fuzzyRegex.test(text): the characters of the pattern matched in order, with
\* ".*" (any characters, none included) between them, anywhere in the text
RECURSIVE FuzzyTest(_, _)
FuzzyTest(searchTerm, text) ==
    IF searchTerm = <<>> THEN TRUE
    ELSE IF text = <<>> THEN FALSE
    ELSE IF PatternCharMatches(Head(searchTerm), Head(text))
         THEN FuzzyTest(Tail(searchTerm), Tail(text))
         ELSE FuzzyTest(searchTerm, Tail(text))

TaskMatches(task, searchTerm) ==
    \/ Includes(ToLowerCase(task.text), searchTerm)
    \/ FuzzyTest(searchTerm, task.text)

SearchResults(searchTerm) == SelectSeq(tasks, LAMBDA task : TaskMatches(task, searchTerm))

\* "limit cache size to prevent memory bloat", then this.searchCache.set
CacheSet(key, results) ==
    (IF Len(searchCache) > CacheLimit THEN Tail(searchCache) ELSE searchCache)
        \o <<[key |-> key, results |-> results]>>

SearchTasks(query) ==
    /\ UNCHANGED <<tasks, currentId, statsCache, statsCacheTime, storage, exported, now,
                   issued, issuedSinceReset>>
    /\ IF BlankQuery(query)
       THEN /\ searchCache' = <<>>
            /\ CalledGiving("searchTasks", query, "tasks", tasks)
       ELSE LET searchTerm == SearchTerm(query)
                cacheKey == CacheKey(searchTerm)
            IN  IF CacheHas(cacheKey)
                THEN /\ UNCHANGED searchCache
                     /\ CalledGiving("searchTasks", query, "cached", CacheGet(cacheKey))
                ELSE IF PatternThrows(searchTerm)
                THEN /\ UNCHANGED searchCache
                     /\ Called("searchTasks", query, "throw")
                ELSE /\ searchCache' = CacheSet(cacheKey, SearchResults(searchTerm))
                     /\ CalledGiving("searchTasks", query, "results",
                                     SearchResults(searchTerm))

(***************************************************************************)
(* getStats()                                                              *)
(***************************************************************************)
StatsTtl == 100

\* mutant of StatsCacheFresh: a cached value never too old
StatsCacheNeverOld == statsCache # NoStats

\* this.statsCache && (now - this.statsCacheTime) < 100
StatsCacheFresh == statsCache # NoStats /\ (now - statsCacheTime) < StatsTtl

\* Math.round((completed / total) * 100) of 0 <= completed <= total, total > 0:
\* the nearest integer, a half rounded up
RoundedPercent(completed, total) == (200 * completed + total) \div (2 * total)

ComputedStats ==
    LET total == Len(tasks)
        completed == Cardinality({i \in 1..total : tasks[i].completed})
    IN  [kind |-> "stats",
         total |-> total,
         active |-> total - completed,
         completed |-> completed,
         completionRate |-> IF total > 0 THEN RoundedPercent(completed, total) ELSE 0]

GetStats ==
    /\ UNCHANGED <<tasks, currentId, searchCache, storage, exported, now, issued,
                   issuedSinceReset>>
    /\ IF StatsCacheFresh
       THEN /\ UNCHANGED <<statsCache, statsCacheTime>>
            /\ CalledGiving("getStats", Null, "cached", statsCache)
       ELSE /\ statsCache' = ComputedStats
            /\ statsCacheTime' = now
            /\ CalledGiving("getStats", Null, "computed", ComputedStats)

(***************************************************************************)
(* getSubtaskStats(parentId)                                               *)
(***************************************************************************)
CompletedIn(ts) == Len(SelectSeq(ts, LAMBDA t : t.completed))

\* mutant of SubtaskStats: the tasks of the whole subtree counted
SubtaskStatsDeep(parentId) ==
    LET below == SelectSeq(tasks, LAMBDA t :
                     \E i \in 1..Len(GetSubtaskIds(tasks, parentId).ids) :
                        GetSubtaskIds(tasks, parentId).ids[i] = t.id)
    IN  [total |-> Len(below),
         completed |-> CompletedIn(below),
         active |-> Len(below) - CompletedIn(below)]

SubtaskStats(parentId) ==
    LET subtasks == SelectSeq(tasks, LAMBDA t : t.parentId = parentId)
        total == Len(subtasks)
        completed == CompletedIn(subtasks)
    IN  [total |-> total, completed |-> completed, active |-> total - completed]

GetSubtaskStats(parentId) ==
    /\ CalledGiving("getSubtaskStats", parentId, "stats", SubtaskStats(parentId))
    /\ UNCHANGED <<tasks, currentId, storage, exported, now, issued, issuedSinceReset>>
    /\ CachesUnchanged

(***************************************************************************)
(* reorderTasks(fromIndex, toIndex), for 0-based positions of the          *)
(* collection                                                              *)
(***************************************************************************)
\* the start of Array.prototype.splice: a negative index counts from the end, and
\* the result is kept within 0..length
SpliceStart(index, length) ==
    IF index < 0 THEN Max(length + index, 0) ELSE Min(index, length)

\* this.tasks.splice(toIndex, 0, movedTask)
InsertAt(ts, toIndex, item) ==
    LET start == SpliceStart(toIndex, Len(ts))
    IN  SubSeq(ts, 1, start) \o <<item>> \o SubSeq(ts, start + 1, Len(ts))

\* const [movedTask] = this.tasks.splice(fromIndex, 1): a start at or beyond the end
\* removes nothing, and the first element of the empty array removed is undefined
MovedTask(fromIndex) ==
    LET start == SpliceStart(fromIndex, Len(tasks))
    IN  IF start < Len(tasks) THEN tasks[start + 1] ELSE UndefinedEntry

AfterRemoval(fromIndex) ==
    LET start == SpliceStart(fromIndex, Len(tasks))
    IN  IF start < Len(tasks) THEN RemoveAt(tasks, start + 1) ELSE tasks

\* mutant of Reordered: the two elements exchanged
Swapped(fromIndex, toIndex) ==
    [i \in 1..Len(tasks) |->
        IF i = fromIndex + 1 /\ toIndex + 1 \in 1..Len(tasks) THEN tasks[toIndex + 1]
        ELSE IF i = toIndex + 1 /\ fromIndex + 1 \in 1..Len(tasks) THEN tasks[fromIndex + 1]
        ELSE tasks[i]]

Reordered(fromIndex, toIndex) ==
    InsertAt(AfterRemoval(fromIndex), toIndex, MovedTask(fromIndex))

ReorderTasks(fromIndex, toIndex) ==
    IF fromIndex = toIndex
    THEN /\ CalledGiving("reorderTasks", Null, "false", <<fromIndex, toIndex>>)
         /\ UNCHANGED <<tasks, currentId, storage, exported, now, issued, issuedSinceReset>>
         /\ CachesUnchanged
    ELSE /\ tasks' = Reordered(fromIndex, toIndex)
         /\ CalledGiving("reorderTasks", Null, "true", <<fromIndex, toIndex>>)
         /\ UNCHANGED <<currentId, storage, exported, now, issued, issuedSinceReset>>
         /\ CachesUnchanged

(***************************************************************************)
(* saveTasks() / loadTasks()                                               *)
(***************************************************************************)
\* JSON.stringify({tasks, currentId, savedAt}), as JSON.parse reads it back: the
\* fields of a task hold numbers, strings, booleans and null, which come back as
\* they were; a field that an object does not have (Undefined) is not written and
\* is not there when the string is read; a null element stays a null element
SavedRecord ==
    [kind |-> "json", tasks |-> tasks, currentId |-> currentId, savedAt |-> now]

\* localStorage.setItem either stores the record or throws (quota): stored says which
SaveTasks(stored) ==
    /\ storage' = IF stored THEN SavedRecord ELSE storage
    /\ Called("saveTasks", Null, IF stored THEN "true" ELSE "false")
    /\ UNCHANGED <<tasks, currentId, exported, now, issued, issuedSinceReset>>
    /\ CachesUnchanged

\* an array with a null among its elements
HoldsNull(ts) == \E i \in 1..Len(ts) : ts[i] = NullEntry

\* {...task, parentId: task.parentId || null, indentLevel: task.indentLevel || 0}
LoadedTask(task) ==
    [task EXCEPT !.parentId = IF task.parentId \in {Undefined, Null} THEN Null
                              ELSE task.parentId,
                 !.indentLevel = IF task.indentLevel \in {Undefined, 0} THEN 0
                                 ELSE task.indentLevel]

\* data.tasks || []
StoredTasks(data) == IF data.kind = "json" THEN data.tasks ELSE <<>>

\* data.currentId || 1
LoadedCurrentId(data) ==
    IF data.kind = "json" /\ data.currentId \notin {Undefined, 0} THEN data.currentId ELSE 1

\* JSON.parse(saved) throws for a string that is no JSON, and the map callback
\* throws a TypeError at task.parentId for an element that is null: both before
\* this.tasks is assigned
LoadThrows ==
    \/ storage.kind = "garbage"
    \/ storage.kind = "json" /\ HoldsNull(storage.tasks)

\* mutant of LoadTasks: a record that cannot be read taken as an empty one
LoadTasksClearing ==
    IF storage.kind = "none"
    THEN /\ Called("loadTasks", Null, "false")
         /\ UNCHANGED <<tasks, currentId, storage, exported, now, issued, issuedSinceReset>>
         /\ CachesUnchanged
    ELSE /\ tasks' = IF LoadThrows THEN <<>>
                     ELSE [i \in 1..Len(StoredTasks(storage)) |->
                              LoadedTask(StoredTasks(storage)[i])]
         /\ currentId' = IF LoadThrows THEN 1 ELSE LoadedCurrentId(storage)
         /\ issuedSinceReset' = {}
         /\ Called("loadTasks", Null, IF LoadThrows THEN "false" ELSE "true")
         /\ UNCHANGED <<storage, exported, now, issued>>
         /\ CachesUnchanged

\* localStorage.getItem gives null when nothing is stored
LoadTasks ==
    IF storage.kind \in {"json", "other"} /\ ~LoadThrows
    THEN /\ tasks' = [i \in 1..Len(StoredTasks(storage)) |->
                        LoadedTask(StoredTasks(storage)[i])]
         /\ currentId' = LoadedCurrentId(storage)
         /\ issuedSinceReset' = {}
         /\ Called("loadTasks", Null, "true")
         /\ UNCHANGED <<storage, exported, now, issued>>
         /\ CachesUnchanged
    ELSE /\ Called("loadTasks", Null, "false")
         /\ UNCHANGED <<tasks, currentId, storage, exported, now, issued, issuedSinceReset>>
         /\ CachesUnchanged

(***************************************************************************)
(* exportToJSON() / importFromJSON(jsonString)                             *)
(***************************************************************************)
\* JSON.stringify({tasks, exportedAt, version}, null, 2), as JSON.parse reads it back
ExportedString ==
    [kind |-> "json", tasks |-> tasks, exportedAt |-> now, version |-> "1.0"]

ExportToJSON ==
    /\ exported' = ExportedString
    /\ Called("exportToJSON", Null, "string")
    /\ UNCHANGED <<tasks, currentId, storage, now, issued, issuedSinceReset>>
    /\ CachesUnchanged

\* Math.max(...this.tasks.map(t => t.id), 0)
RECURSIVE MaxIdOf(_)
MaxIdOf(ts) == IF ts = <<>> THEN 0 ELSE Max(Head(ts).id, MaxIdOf(Tail(ts)))

\* mutant of ImportedCurrentId: the id counter taken from the number of tasks
ImportedCurrentIdFromLength(ts) == Len(ts) + 1

ImportedCurrentId(ts) == MaxIdOf(ts) + 1

\* JSON.parse(jsonString) gave an object with an array under "tasks"
HasTasksArray(jsonString) == jsonString.kind = "json"

\* this.tasks = data.tasks is done before the ids are read: t.id of an element that
\* is null throws a TypeError, the catch block returns false, and the collection
\* stays replaced while currentId is as it was
ImportFromJSON(jsonString) ==
    IF HasTasksArray(jsonString)
    THEN /\ tasks' = jsonString.tasks
         /\ issuedSinceReset' = {}
         /\ IF HoldsNull(jsonString.tasks)
            THEN /\ UNCHANGED currentId
                 /\ CalledGiving("importFromJSON", Null, "false", jsonString)
            ELSE /\ currentId' = ImportedCurrentId(jsonString.tasks)
                 /\ CalledGiving("importFromJSON", Null, "true", jsonString)
         /\ UNCHANGED <<storage, exported, now, issued>>
         /\ CachesUnchanged
    ELSE /\ CalledGiving("importFromJSON", Null, "false", jsonString)
         /\ UNCHANGED <<tasks, currentId, storage, exported, now, issued, issuedSinceReset>>
         /\ CachesUnchanged

(***************************************************************************)
(* clearAll()                                                              *)
(***************************************************************************)
ClearAll ==
    /\ tasks' = <<>>
    /\ currentId' = InitialId
    /\ issuedSinceReset' = {}
    /\ Called("clearAll", Len(tasks), "count")
    /\ UNCHANGED <<storage, exported, now, issued>>
    /\ CachesUnchanged

(***************************************************************************)
(* The fields of a TaskFlowApp: state.lastRenderedTaskIds as the list of    *)
(* ids the signature joins, saveTimer / rafId / statsRafId as "a callback   *)
(* is pending", renderTimer for the 300 ms timeout deleteTask sets, view    *)
(* for the children of the visible task list, handler for the handler or    *)
(* callback that ran last. NoApp: no controller has been constructed.       *)
(***************************************************************************)
NoApp ==
    [mounted |-> FALSE, handler |-> "none", saveTimer |-> FALSE, renderTimer |-> FALSE,
     rafId |-> FALSE, statsRafId |-> FALSE, lastRenderedTaskIds |-> <<>>, view |-> <<>>]

(***************************************************************************)
(* The state after the class is defined: the static fields' initializers.  *)
(***************************************************************************)
Init ==
    /\ tasks = <<>>
    /\ currentId = InitialId
    /\ searchCache = <<>>
    /\ statsCache = NoStats
    /\ statsCacheTime = 0
    /\ storage = NoRecord
    /\ exported = NoRecord
    /\ now = 0
    /\ last = [op |-> "init", arg |-> Null, ret |-> "null", before |-> 0, val |-> <<>>]
    /\ issued = {}
    /\ issuedSinceReset = {}
    /\ app = NoApp

(***************************************************************************)
(* Inputs.                                                                 *)
(***************************************************************************)
BlankText == <<" ">>
SomeText == <<" ", "a">>
LiveIds == {tasks[i].id : i \in 1..Len(tasks)}
Positions == 0..(Len(tasks) - 1)

(***************************************************************************)
(* SpecTree: from the empty store, createTask(text) with the default       *)
(* parentId and indentLevel, and toggleComplete, deleteTask, indentTask    *)
(* and outdentTask on the tasks of the collection.                         *)
(***************************************************************************)
TreeCreate ==
    /\ Len(tasks) < TreeMaxTasks
    /\ currentId <= TreeMaxId
    /\ CreateTask(SomeText, Null, 0)

Toggle == \E id \in LiveIds : ToggleComplete(id)

Delete == \E id \in LiveIds : DeleteTask(id)

Indent == \E id \in LiveIds : IndentTask(id)

Outdent == \E id \in LiveIds : OutdentTask(id)

NextTree ==
    \/ TreeCreate
    \/ Toggle
    \/ Delete
    \/ Indent
    \/ Outdent

SpecTree == Init /\ [][NextTree]_vars

(***************************************************************************)
(* Spec: the mutations of the hierarchy as a caller that keeps to existing *)
(* tasks and positions makes them: createTask(text) with the default       *)
(* parentId and indentLevel, the calls on tasks of the collection, and     *)
(* reorderTasks on two positions of the collection.                        *)
(***************************************************************************)
Create ==
    \E text \in {BlankText, SomeText} :
        /\ Len(tasks) < MaxTasks
        /\ currentId <= MaxId
        /\ CreateTask(text, Null, 0)

\* indentTask puts its task one level below the task above it, whatever that level
\* is: levels grow without limit once tasks are reordered, and are explored to MaxLevel
BoundedIndent ==
    \E id \in LiveIds :
        /\ FindIndex(id) > 1 => tasks[FindIndex(id) - 1].indentLevel < MaxLevel
        /\ IndentTask(id)

Reorder == \E fromIndex, toIndex \in Positions : ReorderTasks(fromIndex, toIndex)

Next ==
    \/ Create
    \/ Toggle
    \/ Delete
    \/ BoundedIndent
    \/ Outdent
    \/ Reorder
    \/ ClearCompleted

Spec == Init /\ [][Next]_vars

(***************************************************************************)
(* SpecArgs: createTask given any text, parentId and indentLevel, with the *)
(* calls that remove and re-parent tasks.                                  *)
(***************************************************************************)
ArgsCreate ==
    \E text \in {BlankText, SomeText}, parentId \in {Null} \cup (1..ArgsMaxId),
       indentLevel \in 0..1 :
        /\ Len(tasks) < ArgsMaxTasks
        /\ currentId <= ArgsMaxId
        /\ CreateTask(text, parentId, indentLevel)

NextArgs ==
    \/ ArgsCreate
    \/ Delete
    \/ Indent
    \/ Outdent

SpecArgs == Init /\ [][NextArgs]_vars

(***************************************************************************)
(* SpecStore: creation and removal of tasks together with the calls that   *)
(* replace the whole collection: clearAll, loadTasks of what saveTasks     *)
(* stored, importFromJSON of what exportToJSON returned or of a string     *)
(* that is no JSON.                                                        *)
(***************************************************************************)
StoreCreate ==
    /\ Len(tasks) < StoreMaxTasks
    /\ currentId <= StoreMaxId
    /\ CreateTask(SomeText, Null, 0)

Save == \E stored \in BOOLEAN : SaveTasks(stored)

Import == \E jsonString \in {Garbage, exported} : ImportFromJSON(jsonString)

NextStore ==
    \/ StoreCreate
    \/ Toggle
    \/ Delete
    \/ ClearCompleted
    \/ ClearAll
    \/ Save
    \/ LoadTasks
    \/ ExportToJSON
    \/ Import

SpecStore == Init /\ [][NextStore]_vars

(***************************************************************************)
(* SpecSearch: searchTasks between the calls that change what a search     *)
(* finds: createTask, deleteTask, reorderTasks, and importFromJSON of what *)
(* exportToJSON returned.  No task is indented, so no walk overflows.      *)
(***************************************************************************)
SearchTexts == {<<"a", "b", "c">>, <<"A", "(">>}

Queries == {<<" ">>, <<"a", "c">>, <<" ", "A">>, <<"c", "a">>, <<".">>, <<"(">>}

SearchCreate ==
    \E text \in SearchTexts :
        /\ Len(tasks) < SearchMaxTasks
        /\ currentId <= SearchMaxId
        /\ CreateTask(text, Null, 0)

Search ==
    \E query \in Queries :
        /\ Len(searchCache) < SearchMaxCached
        /\ SearchTasks(query)

ImportExported == ImportFromJSON(exported)

NextSearch ==
    \/ SearchCreate
    \/ Delete
    \/ Reorder
    \/ Search
    \/ ExportToJSON
    \/ ImportExported

SpecSearch == Init /\ [][NextSearch]_vars

(***************************************************************************)
(* SpecCache: every call that changes the collection, with searchTasks and *)
(* getStats filling the caches in between.                                 *)
(***************************************************************************)
OtherText == <<"b">>

CacheCreate ==
    /\ Len(tasks) < CacheMaxTasks
    /\ currentId <= CacheMaxId
    /\ CreateTask(SomeText, Null, 0)

Update == \E id \in LiveIds, text \in {SomeText, OtherText} : UpdateTask(id, text)

CacheIndent ==
    \E id \in LiveIds :
        /\ FindIndex(id) > 1 => tasks[FindIndex(id) - 1].indentLevel < CacheMaxLevel
        /\ IndentTask(id)

CacheSearch == SearchTasks(<<"a">>)

NextCache ==
    \/ CacheCreate
    \/ Update
    \/ Toggle
    \/ Delete
    \/ CacheIndent
    \/ Outdent
    \/ ClearCompleted
    \/ Reorder
    \/ CacheSearch
    \/ GetStats

SpecCache == Init /\ [][NextCache]_vars

(***************************************************************************)
(* SpecStats: getStats as the clock advances, between calls that change    *)
(* the counts.                                                             *)
(***************************************************************************)
TickMs == {99, 100}

\* time passes between two calls: Date.now() has advanced by d milliseconds
Tick ==
    \E d \in TickMs :
        /\ now + d <= MaxNow
        /\ now' = now + d
        /\ Called("tick", Null, "null")
        /\ UNCHANGED <<tasks, currentId, searchCache, statsCache, statsCacheTime, storage,
                       exported, issued, issuedSinceReset>>

StatsCreate ==
    /\ Len(tasks) < StatsMaxTasks
    /\ currentId <= StatsMaxId
    /\ CreateTask(SomeText, Null, 0)

NextStats ==
    \/ StatsCreate
    \/ Toggle
    \/ Delete
    \/ ClearCompleted
    \/ ClearAll
    \/ GetStats
    \/ Tick

SpecStats == Init /\ [][NextStats]_vars

(***************************************************************************)
(* SpecEvict: many different queries searched on a collection that stays   *)
(* as it is, so that the search cache fills.  The queries are "a", "aa",   *)
(* "aaa", ...: each call searches the first query again or the shortest    *)
(* query longer than those the cache holds.                                *)
(***************************************************************************)
LongQuery(n) == [i \in 1..n |-> "a"]

\* the length of the longest term the cache holds, 0 for the empty cache
LongestCached ==
    IF searchCache = <<>> THEN 0
    ELSE LET lengths == {Len(searchCache[e].key.term) : e \in 1..Len(searchCache)}
         IN  CHOOSE n \in lengths : \A m \in lengths : m <= n

EvictCreate ==
    /\ Len(tasks) < EvictMaxTasks
    /\ currentId <= EvictMaxId
    /\ CreateTask(SomeText, Null, 0)

EvictSearch ==
    \E n \in {1, LongestCached + 1} :
        /\ n <= EvictMaxQuery
        /\ SearchTasks(LongQuery(n))

NextEvict ==
    \/ EvictCreate
    \/ Delete
    \/ EvictSearch

SpecEvict == Init /\ [][NextEvict]_vars

(***************************************************************************)
(* SpecPersist: saveTasks, loadTasks, exportToJSON and importFromJSON with *)
(* the strings and stored records they can meet: what the program wrote    *)
(* itself, a string that is no JSON, JSON without an array under "tasks",  *)
(* a hand-written list whose task lacks parentId and indentLevel, and a    *)
(* list that holds null.  The calls that read the fields of the tasks are  *)
(* explored on collections without null.                                   *)
(***************************************************************************)
\* '{"tasks": [{"id": 2, "text": "a", "completed": false, "createdAt": 0, "updatedAt": 0}]}'
HandWritten ==
    [kind |-> "json",
     tasks |-> <<[id |-> 2, text |-> <<"a">>, completed |-> FALSE, parentId |-> Undefined,
                  indentLevel |-> Undefined, createdAt |-> 0, updatedAt |-> 0]>>]

\* '{"tasks": [null]}'
NullsJson == [kind |-> "json", tasks |-> <<NullEntry>>]

Payloads == {Garbage, OtherJson, HandWritten, NullsJson, exported}

Intact == ~HoldsNull(tasks)

PersistCreate ==
    /\ Len(tasks) < PersistMaxTasks
    /\ currentId <= PersistMaxId
    /\ CreateTask(SomeText, Null, 0)

PersistToggle == Intact /\ Toggle

PersistDelete == Intact /\ Delete

PersistImport == \E jsonString \in Payloads : ImportFromJSON(jsonString)

\* the item under 'taskflow-data' overwritten, outside the program, by a string that
\* is no JSON or by '{}'
Corrupt ==
    /\ storage' \in {Garbage, OtherJson}
    /\ Called("setItem", Null, "null")
    /\ UNCHANGED <<tasks, currentId, exported, now, issued, issuedSinceReset>>
    /\ CachesUnchanged

NextPersist ==
    \/ PersistCreate
    \/ PersistToggle
    \/ PersistDelete
    \/ Save
    \/ Corrupt
    \/ LoadTasks
    \/ ExportToJSON
    \/ PersistImport
    \/ ClearAll

SpecPersist == Init /\ [][NextPersist]_vars

(***************************************************************************)
(* SpecEdit: createTask and updateTask with empty, blank and padded texts, *)
(* and the calls that take an id with the ids of the collection and with   *)
(* ids no task has, as the clock advances and with both caches in use.     *)
(***************************************************************************)
EmptyText == <<>>
PaddedText == <<" ", "b", " ">>

\* the ids handed to the calls: those issued so far and one never issued
EditIds == 1..(EditMaxId + 1)

EditCreate ==
    \E text \in {EmptyText, BlankText, SomeText} :
        /\ Len(tasks) < EditMaxTasks
        /\ currentId <= EditMaxId
        /\ CreateTask(text, Null, 0)

EditUpdate == \E id \in EditIds, text \in {BlankText, PaddedText} : UpdateTask(id, text)

EditToggle == \E id \in EditIds : ToggleComplete(id)

EditDelete == \E id \in EditIds : DeleteTask(id)

EditIndent == \E id \in EditIds : IndentTask(id)

EditOutdent == \E id \in EditIds : OutdentTask(id)

NextEdit ==
    \/ EditCreate
    \/ EditUpdate
    \/ EditToggle
    \/ EditDelete
    \/ EditIndent
    \/ EditOutdent
    \/ CacheSearch
    \/ GetStats
    \/ Tick

SpecEdit == Init /\ [][NextEdit]_vars

(***************************************************************************)
(* SpecSubtasks: tasks created at the top level and as subtasks of the     *)
(* tasks of the collection through parentId, toggled and deleted, and      *)
(* getSubtaskStats asked for every id in use.                              *)
(***************************************************************************)
SubCreate ==
    \E parentId \in {Null} \cup LiveIds :
        /\ Len(tasks) < SubMaxTasks
        /\ currentId <= SubMaxId
        /\ CreateTask(SomeText, parentId, IF parentId = Null THEN 0 ELSE 1)

SubStats == \E parentId \in 1..SubMaxId : GetSubtaskStats(parentId)

NextSubtasks ==
    \/ SubCreate
    \/ Toggle
    \/ Delete
    \/ SubStats

SpecSubtasks == Init /\ [][NextSubtasks]_vars

(***************************************************************************)
(* SpecLegacy: loadTasks of the records saveTasks stored and of a record   *)
(* of an older format, written without currentId and without parentId and  *)
(* indentLevel in its task.                                                *)
(***************************************************************************)
\* '{"tasks": [{"id": 2, "text": "a", "completed": false, "createdAt": 0,
\*   "updatedAt": 0}], "savedAt": 0}'
LegacyRecord ==
    [kind |-> "json",
     tasks |-> <<[id |-> 2, text |-> <<"a">>, completed |-> FALSE, parentId |-> Undefined,
                  indentLevel |-> Undefined, createdAt |-> 0, updatedAt |-> 0]>>,
     currentId |-> Undefined,
     savedAt |-> 0]

\* the item under 'taskflow-data' as an older version of the program left it
StoredByOlderVersion ==
    /\ storage' = LegacyRecord
    /\ Called("setItem", Null, "null")
    /\ UNCHANGED <<tasks, currentId, exported, now, issued, issuedSinceReset>>
    /\ CachesUnchanged

LegacyCreate ==
    /\ Len(tasks) < LegacyMaxTasks
    /\ currentId <= LegacyMaxId
    /\ CreateTask(SomeText, Null, 0)

NextLegacy ==
    \/ LegacyCreate
    \/ Toggle
    \/ Delete
    \/ Save
    \/ StoredByOlderVersion
    \/ LoadTasks

SpecLegacy == Init /\ [][NextLegacy]_vars

(***************************************************************************)
(* SpecReorder: reorderTasks with any pair of integers for its indices,    *)
(* those outside the collection and the negative ones with them, between   *)
(* calls that create and delete tasks.  deleteTask, which reads the ids of *)
(* the elements, is explored on collections without an undefined element.  *)
(***************************************************************************)
Dense == \A i \in 1..Len(tasks) : tasks[i] # UndefinedEntry

ReorderCreate ==
    /\ Len(tasks) < ReorderMaxTasks
    /\ currentId <= ReorderMaxId
    /\ CreateTask(SomeText, Null, 0)

ReorderDelete == Dense /\ Delete

ReorderAny ==
    \E fromIndex, toIndex \in (0 - ReorderMaxIndex)..ReorderMaxIndex :
        /\ Len(tasks) < ReorderMaxTasks \/ SpliceStart(fromIndex, Len(tasks)) < Len(tasks)
        /\ ReorderTasks(fromIndex, toIndex)

NextReorder ==
    \/ ReorderCreate
    \/ ReorderDelete
    \/ ReorderAny

SpecReorder == Init /\ [][NextReorder]_vars

(***************************************************************************)
(* The controller, TaskFlowApp (js/app.js), with the filter 'all' and no    *)
(* search query. A handler is one step: the call of the engine it makes and *)
(* the fields of the controller it sets. What it hands to                   *)
(* requestAnimationFrame or setTimeout is a step of its own, and the frames *)
(* it requested run before the next event or timer is handled.              *)
(***************************************************************************)
AppMaxTasks == 2
AppMaxId == 2

\* what createTaskElement puts in the list for one task: data-task-id, the class
\* 'completed' and the state of the checkbox, data-indent-level
TaskElement(task) ==
    [id |-> task.id, completed |-> task.completed, indentLevel |-> task.indentLevel]

\* the children the frame of renderTasks builds, one per task, in order
ViewOf(ts) == [i \in 1..Len(ts) |-> TaskElement(ts[i])]

\* the data-task-id of the elements in the list: the ids an event can carry
ShownIds == {app.view[i].id : i \in 1..Len(app.view)}

\* renderTasks(): nothing is done when the ids are the ids rendered last and there is
\* a task; the list is hidden when there is none; else a frame is requested
RenderTasks(a, ts) ==
    IF TaskIds(ts) = a.lastRenderedTaskIds /\ Len(ts) > 0
    THEN a
    ELSE IF Len(ts) = 0
         THEN [a EXCEPT !.lastRenderedTaskIds = <<>>, !.view = <<>>]
         ELSE [a EXCEPT !.lastRenderedTaskIds = TaskIds(ts), !.rafId = TRUE]

\* updateStats(): a frame that will call getStats
UpdateStats(a) == [a EXCEPT !.statsRafId = TRUE]

\* scheduleSave(): the pending timer is cleared and a new one is set
ScheduleSave(a) == [a EXCEPT !.saveTimer = TRUE]

Handling(a, name) == [a EXCEPT !.handler = name]

\* no frame is waiting to run
Idle == app.mounted /\ ~app.rafId /\ ~app.statsRafId

\* new TaskFlowApp(): the constructor's fields, then init() with nothing in storage:
\* loadTasks() returns false, renderTasks() hides the list, updateStats() asks for a frame
InitApp ==
    /\ tasks = <<>>
    /\ currentId = InitialId
    /\ searchCache = <<>>
    /\ statsCache = NoStats
    /\ statsCacheTime = 0
    /\ storage = NoRecord
    /\ exported = NoRecord
    /\ now = 0
    /\ last = [op |-> "loadTasks", arg |-> Null, ret |-> "false", before |-> 0, val |-> <<>>]
    /\ issued = {}
    /\ issuedSinceReset = {}
    /\ app = [mounted |-> TRUE, handler |-> "init", saveTimer |-> FALSE,
              renderTimer |-> FALSE, rafId |-> FALSE, statsRafId |-> TRUE,
              lastRenderedTaskIds |-> <<>>, view |-> <<>>]

\* addTask(): the input's value is not blank
AppAddTask(value) ==
    /\ Idle
    /\ Trim(value) # <<>>
    /\ CreateTask(value, Null, 0)
    /\ app' = IF last'.ret = "task"
              THEN ScheduleSave(UpdateStats(RenderTasks(Handling(app, "addTask"), tasks')))
              ELSE Handling(app, "addTask")

\* toggleTask(id)
AppToggleTask(id) ==
    /\ Idle
    /\ ToggleComplete(id)
    /\ app' = IF last'.ret = "task"
              THEN ScheduleSave(UpdateStats(RenderTasks(Handling(app, "toggleTask"), tasks')))
              ELSE Handling(app, "toggleTask")

\* deleteTask(id): the list is rendered 300 ms later if the task's element is there
AfterDelete(a, id, deleted) ==
    IF deleted
    THEN ScheduleSave([a EXCEPT !.renderTimer = a.renderTimer \/ id \in ShownIds])
    ELSE a

AppDeleteTask(id) ==
    /\ Idle
    /\ DeleteTask(id)
    /\ app' = AfterDelete(Handling(app, "deleteTask"), id, last'.ret = "task")

\* updateTaskText(id, newText): a blank text deletes the task; an edit is saved, the
\* list is not rendered
AppUpdateTaskText(id, newText) ==
    /\ Idle
    /\ IF Trim(newText) = <<>>
       THEN /\ DeleteTask(id)
            /\ app' = AfterDelete(Handling(app, "updateTaskText"), id, last'.ret = "task")
       ELSE /\ UpdateTask(id, newText)
            /\ app' = IF last'.ret = "task"
                      THEN ScheduleSave(Handling(app, "updateTaskText"))
                      ELSE Handling(app, "updateTaskText")

\* currentTask?.indentLevel || 0
IndentLevelOf(id) == IF Exists(id) THEN Find(id).indentLevel ELSE 0

\* createTaskBelow(currentTaskId), typed being the text in the task's element: the
\* text is given to updateTask if it is not blank; createTask('', null, level) then
\* returns null, '' being blank, so that the block under "if (newTask && ...)", with
\* its renderTasks, updateStats and scheduleSave, is not run. A call of createTask
\* that follows an updateTask leaves the state as updateTask left it
AppCreateTaskBelow(currentTaskId, typed) ==
    /\ Idle
    /\ Trim(<<>>) = <<>>
    /\ IF Trim(typed) # <<>>
       THEN UpdateTask(currentTaskId, Trim(typed))
       ELSE CreateTask(<<>>, Null, IndentLevelOf(currentTaskId))
    /\ app' = Handling(app, "createTaskBelow")

\* indentTask(id) / outdentTask(id): the stats are not updated
AppIndentTask(id) ==
    /\ Idle
    /\ IndentTask(id)
    /\ app' = IF last'.ret = "task"
              THEN ScheduleSave(RenderTasks(Handling(app, "indentTask"), tasks'))
              ELSE Handling(app, "indentTask")

AppOutdentTask(id) ==
    /\ Idle
    /\ OutdentTask(id)
    /\ app' = IF last'.ret = "task"
              THEN ScheduleSave(RenderTasks(Handling(app, "outdentTask"), tasks'))
              ELSE Handling(app, "outdentTask")

\* clearCompleted()
AppClearCompleted ==
    /\ Idle
    /\ ClearCompleted
    /\ app' = IF last'.arg > 0
              THEN ScheduleSave(UpdateStats(RenderTasks(Handling(app, "clearCompleted"), tasks')))
              ELSE Handling(app, "clearCompleted")

\* the timeout deleteTask set: renderTasks() and updateStats()
AppDeleteRender ==
    /\ Idle
    /\ app.renderTimer
    /\ app' = UpdateStats(RenderTasks([Handling(app, "deleteRender") EXCEPT
                                           !.renderTimer = FALSE], tasks))
    /\ Called("renderTasks", Null, "null")
    /\ UNCHANGED <<tasks, currentId, storage, exported, now, issued, issuedSinceReset>>
    /\ CachesUnchanged

\* the frame renderTasks requested: the children of the list are replaced
AppRenderFrame ==
    /\ app.mounted
    /\ app.rafId
    /\ app' = [Handling(app, "renderFrame") EXCEPT !.rafId = FALSE, !.view = ViewOf(tasks)]
    /\ Called("renderFrame", Null, "null")
    /\ UNCHANGED <<tasks, currentId, storage, exported, now, issued, issuedSinceReset>>
    /\ CachesUnchanged

\* the frame updateStats requested: getStats()
AppStatsFrame ==
    /\ app.mounted
    /\ app.statsRafId
    /\ GetStats
    /\ app' = [Handling(app, "statsFrame") EXCEPT !.statsRafId = FALSE]

\* the timer scheduleSave set, 2000 ms after the last call of it: performSave()
AppPerformSave ==
    /\ Idle
    /\ app.saveTimer
    /\ \E stored \in BOOLEAN : SaveTasks(stored)
    /\ app' = [Handling(app, "performSave") EXCEPT !.saveTimer = FALSE]

AppTexts == {BlankText, SomeText, OtherText}

AppAdd == Len(tasks) < AppMaxTasks /\ currentId <= AppMaxId /\ AppAddTask(SomeText)

AppToggle == \E id \in ShownIds : AppToggleTask(id)

AppDelete == \E id \in ShownIds : AppDeleteTask(id)

AppEdit == \E id \in ShownIds, newText \in AppTexts : AppUpdateTaskText(id, newText)

AppEnter == \E id \in ShownIds, typed \in AppTexts : AppCreateTaskBelow(id, typed)

AppIndent == \E id \in ShownIds : AppIndentTask(id)

AppOutdent == \E id \in ShownIds : AppOutdentTask(id)

NextApp ==
    \/ AppAdd
    \/ AppToggle
    \/ AppDelete
    \/ AppEdit
    \/ AppEnter
    \/ AppIndent
    \/ AppOutdent
    \/ AppClearCompleted
    \/ AppDeleteRender
    \/ AppRenderFrame
    \/ AppStatsFrame
    \/ AppPerformSave

SpecApp == InitApp /\ [][NextApp]_vars

(***************************************************************************)
(* Vocabulary of the properties.                                           *)
(***************************************************************************)
IdsOf(ts) == {ts[i].id : i \in 1..Len(ts)}

UniqueIdsIn(ts) == \A i, j \in 1..Len(ts) : i # j => ts[i].id # ts[j].id

\* the ids of the tasks below id in the parentId relation: the children, their
\* children, and so on (the least set closed under "has its parent in the set")
RECURSIVE ClosedUnder(_, _)
ClosedUnder(ts, ids) ==
    LET more == ids \cup {ts[i].id : i \in {j \in 1..Len(ts) : ts[j].parentId \in ids}}
    IN  IF more = ids THEN ids ELSE ClosedUnder(ts, more)

DescendantsOf(ts, id) ==
    LET children == {ts[i].id : i \in {j \in 1..Len(ts) : ts[j].parentId = id}}
    IN  IF children = {} THEN {} ELSE ClosedUnder(ts, children)

HasTask(ts, id) == \E i \in 1..Len(ts) : ts[i].id = id

TaskOf(ts, id) == ts[CHOOSE i \in 1..Len(ts) : ts[i].id = id]

\* the step is a call of op that returned a task
Returned(op) == last'.op = op /\ last'.ret = "task"

\* the step is a toggleComplete of an existing task that was (not) complete
Completing == last'.op = "toggleComplete" /\ last'.ret # "null" /\ ~Find(last'.arg).completed
Uncompleting == last'.op = "toggleComplete" /\ last'.ret # "null" /\ Find(last'.arg).completed

(***************************************************************************)
(* C1: over any sequence of calls that create and delete tasks, no two     *)
(* tasks of the collection share an id, and a created task gets an id      *)
(* greater than every id assigned before.                                  *)
(***************************************************************************)
C1_UniqueIncreasingIds ==
    [][/\ UniqueIdsIn(tasks')
       /\ Returned("createTask") =>
             /\ tasks'[Len(tasks')].id = last'.arg
             /\ \A earlier \in issued : last'.arg > earlier]_vars

\* a task created after two others, one of which has been deleted
C1_Witness ==
    /\ last.op = "createTask" /\ last.ret = "task"
    /\ Cardinality(issued) = 3
    /\ Len(tasks) = 2
    /\ issued \ IdsOf(tasks) # {}

(***************************************************************************)
(* C2, as stated: an id once assigned is never assigned to a later task,   *)
(* whatever calls lie in between, clearAll, loadTasks and importFromJSON   *)
(* included.                                                               *)
(***************************************************************************)
C2_NeverReused == [][Returned("createTask") => last'.arg \notin issued]_vars

(***************************************************************************)
(* C2, amended: an id once assigned is not assigned again, also after its  *)
(* task was removed by deleteTask or clearCompleted, as long as no         *)
(* clearAll, loadTasks or importFromJSON has run since it was assigned.    *)
(***************************************************************************)
C2_NotReusedSinceReset ==
    [][Returned("createTask") => last'.arg \notin issuedSinceReset]_vars

\* a task created after the removal of a task created since the last reset, which
\* itself came after earlier ids had been assigned
C2_Witness ==
    /\ last.op = "createTask" /\ last.ret = "task"
    /\ issuedSinceReset \ IdsOf(tasks) # {}
    /\ issuedSinceReset # issued

(***************************************************************************)
(* C3: from the empty store, after createTask (level 0), indentTask,       *)
(* outdentTask, deleteTask and toggleComplete calls, every indentLevel is  *)
(* between 0 and 3.                                                        *)
(***************************************************************************)
C3_IndentLevelInRange ==
    \A i \in 1..Len(tasks) : tasks[i].indentLevel \in 0..MaxIndent

(***************************************************************************)
(* C4: a task has parentId none if and only if its indentLevel is 0.       *)
(***************************************************************************)
C4_NoParentIffLevelZero ==
    \A i \in 1..Len(tasks) : (tasks[i].parentId = Null) <=> (tasks[i].indentLevel = 0)

(***************************************************************************)
(* C5: a task whose parentId is the id of a task of the collection has     *)
(* that task's indentLevel plus one.                                       *)
(***************************************************************************)
C5_LevelIsParentLevelPlusOne ==
    \A i \in 1..Len(tasks) :
        HasTask(tasks, tasks[i].parentId) =>
            tasks[i].indentLevel = TaskOf(tasks, tasks[i].parentId).indentLevel + 1

(***************************************************************************)
(* C6: when createTask, indentTask or outdentTask sets a parentId other    *)
(* than none, it is the id of another task that is in the collection then. *)
(***************************************************************************)
C6_ParentSetToExistingTask ==
    [][(Returned("createTask") \/ Returned("indentTask") \/ Returned("outdentTask")) =>
          LET task == TaskOf(tasks', last'.arg)
              set == \/ ~Returned("outdentTask")
                     \/ task.parentId # Find(last'.arg).parentId
          IN  (set /\ task.parentId # Null) =>
                  /\ task.parentId # task.id
                  /\ HasTask(tasks', task.parentId)]_vars

C8_CascadeUpOneLevel ==
    [][Completing =>
          LET task == Find(last'.arg)
              allDone == \A i \in 1..Len(tasks') :
                             tasks'[i].parentId = task.parentId => tasks'[i].completed
          IN  (HasTask(tasks, task.parentId) /\ allDone) =>
                  /\ TaskOf(tasks', task.parentId).completed
                  /\ LET grand == TaskOf(tasks, task.parentId).parentId
                     IN  (HasTask(tasks, grand) /\ grand \notin {task.id, task.parentId}) =>
                             TaskOf(tasks', grand) = TaskOf(tasks, grand)]_vars

(***************************************************************************)
(* C9: when toggleComplete turns a task incomplete, its immediate parent   *)
(* (if it has one) is incomplete after the call, and no task other than    *)
(* the task and that parent is changed: no ancestor further up.            *)
(***************************************************************************)
C9_UncheckOnlyParent ==
    [][Uncompleting =>
          LET task == Find(last'.arg)
          IN  /\ Len(tasks') = Len(tasks)
              /\ ~TaskOf(tasks', task.id).completed
              /\ HasTask(tasks, task.parentId) => ~TaskOf(tasks', task.parentId).completed
              /\ \A i \in 1..Len(tasks) :
                     tasks[i].id \notin {task.id, task.parentId} => tasks'[i] = tasks[i]]_vars

\* a task turned incomplete whose parent is now incomplete and whose parent's
\* parent is still complete
C9_Witness ==
    /\ last.op = "toggleComplete" /\ last.ret = "task"
    /\ HasTask(tasks, last.arg)
    /\ LET task == TaskOf(tasks, last.arg)
       IN  /\ ~task.completed
           /\ HasTask(tasks, task.parentId)
           /\ ~TaskOf(tasks, task.parentId).completed
           /\ HasTask(tasks, TaskOf(tasks, task.parentId).parentId)
           /\ TaskOf(tasks, TaskOf(tasks, task.parentId).parentId).completed

(***************************************************************************)
(* C10: deleteTask of an existing task removes the task and all of its     *)
(* descendants, removes no other task, keeps the order and the fields of   *)
(* the tasks that remain, and returns the task it was called for.          *)
(***************************************************************************)
C10_DeleteCascade ==
    [][(last'.op = "deleteTask" /\ last'.ret # "null") =>
          LET family == {last'.arg} \cup DescendantsOf(tasks, last'.arg)
          IN  /\ last'.ret = "task"
              /\ HasTask(tasks, last'.arg)
              /\ tasks' = SelectSeq(tasks, LAMBDA t : t.id \notin family)]_vars

\* a deleteTask that removed three tasks (the task with its descendants) and left
\* another in the collection
C10_Witness ==
    /\ last.op = "deleteTask" /\ last.ret = "task"
    /\ last.before - Len(tasks) >= 3
    /\ Len(tasks) >= 1

\* the step is a call of op on the existing task id
CalledOn(op, id) == last'.op = op /\ last'.arg = id /\ Exists(id)

(***************************************************************************)
(* C11: indentTask of the first task of the collection, or of a task whose *)
(* indentLevel is 3 or more, returns none and leaves the collection as it  *)
(* was.                                                                    *)
(***************************************************************************)
C11_IndentRefused ==
    [][\A id \in LiveIds :
          (CalledOn("indentTask", id)
             /\ (FindIndex(id) = 1 \/ Find(id).indentLevel >= 3))
          => (last'.ret = "null" /\ tasks' = tasks)]_vars

\* an indentTask refused for a task of level 3 or more that is not the first
C11_Witness ==
    /\ last.op = "indentTask" /\ last.ret = "null"
    /\ HasTask(tasks, last.arg)
    /\ TaskOf(tasks, last.arg).indentLevel >= 3
    /\ tasks[1].id # last.arg

C13_OutdentAtOneAndZero ==
    [][\A id \in LiveIds :
          CalledOn("outdentTask", id) =>
             /\ Find(id).indentLevel = 1 =>
                   /\ last'.ret = "task"
                   /\ Len(tasks') = Len(tasks)
                   /\ tasks'[FindIndex(id)].id = id
                   /\ tasks'[FindIndex(id)].indentLevel = 0
                   /\ tasks'[FindIndex(id)].parentId = Null
             /\ Find(id).indentLevel = 0 =>
                   /\ last'.ret = "null"
                   /\ tasks' = tasks]_vars

\* a task outdented from level 1: it has no parent now, and a task below it is
\* still at level 1
C13_Witness ==
    /\ last.op = "outdentTask" /\ last.ret = "task"
    /\ HasTask(tasks, last.arg)
    /\ TaskOf(tasks, last.arg).indentLevel = 0
    /\ TaskOf(tasks, last.arg).parentId = Null
    /\ \E i \in 1..Len(tasks) : tasks[i].indentLevel = 1

(***************************************************************************)
(* C14: an outdentTask that succeeds with a new indentLevel L > 0 sets the *)
(* parentId to the id of the nearest task before the task whose            *)
(* indentLevel is L - 1; with no such task the parentId stays as it was.   *)
(***************************************************************************)
C14_OutdentParent ==
    [][Returned("outdentTask") =>
          LET i == FindIndex(last'.arg)
              L == tasks[i].indentLevel - 1
              above == {j \in 1..(i - 1) : tasks[j].indentLevel = L - 1}
              nearest == CHOOSE j \in above : \A k \in above : k <= j
          IN  L > 0 =>
                 /\ tasks'[i].indentLevel = L
                 /\ tasks'[i].parentId =
                       IF above = {} THEN tasks[i].parentId ELSE tasks[nearest].id]_vars

\* an outdentTask to a level above 0 of a task with no task of the level above
\* before it
C14_Witness ==
    /\ last.op = "outdentTask" /\ last.ret = "task"
    /\ HasTask(tasks, last.arg)
    /\ LET i == FindIndexIn(tasks, last.arg)
       IN  /\ tasks[i].indentLevel > 0
           /\ \A j \in 1..(i - 1) : tasks[j].indentLevel # tasks[i].indentLevel - 1

(***************************************************************************)
(* C15: clearCompleted removes the completed tasks and no others, returns  *)
(* their number, and leaves the other tasks with their fields and their    *)
(* order; an incomplete task whose completed parent is removed stays, with *)
(* its parentId.                                                           *)
(***************************************************************************)
C15_ClearCompleted ==
    [][last'.op = "clearCompleted" =>
          LET kept == {i \in 1..Len(tasks) : ~tasks[i].completed}
          IN  /\ last'.arg = Len(tasks) - Cardinality(kept)
              /\ Len(tasks') = Cardinality(kept)
              /\ \A n \in 1..Len(tasks') :
                    \E i \in kept :
                       /\ Cardinality({j \in kept : j <= i}) = n
                       /\ tasks'[n] = tasks[i]]_vars

\* a clearCompleted that removed a task and left a task whose parentId is the id of
\* no task of the collection
C15_Witness ==
    /\ last.op = "clearCompleted" /\ last.arg >= 1
    /\ \E i \in 1..Len(tasks) :
          tasks[i].parentId # Null /\ ~HasTask(tasks, tasks[i].parentId)

\* the step is a searchTasks call
Searching == last'.op = "searchTasks"

\* the characters of chars occur in text in this order, with anything in between
RECURSIVE IsSubsequence(_, _)
IsSubsequence(chars, text) ==
    IF chars = <<>> THEN TRUE
    ELSE IF text = <<>> THEN FALSE
    ELSE IF Head(chars) = Head(text) THEN IsSubsequence(Tail(chars), Tail(text))
    ELSE IsSubsequence(chars, Tail(text))

(***************************************************************************)
(* C16: a searchTasks call that follows a change of the collection returns *)
(* what the search finds in the collection as it is now, never a result    *)
(* cached before the change: whenever a result comes from the cache, it    *)
(* holds the tasks that a search of the collection at the time of the call *)
(* finds.  (The results are compared as sets of tasks: the order of a      *)
(* result cached before a reorderTasks is not counted as stale.)           *)
(***************************************************************************)
C16_SearchNeverStale ==
    [][(Searching /\ last'.ret = "cached") =>
          SeqToSet(last'.val) = SeqToSet(SearchResults(SearchTerm(last'.arg)))]_vars

(***************************************************************************)
(* C17: each call of createTask, updateTask, toggleComplete, deleteTask,   *)
(* indentTask, outdentTask or clearCompleted that succeeds leaves both the *)
(* stats cache and the search cache empty; reorderTasks leaves both caches *)
(* as they were.                                                           *)
(***************************************************************************)
C17_MutationsInvalidate ==
    [][/\ (/\ last'.op \in {"createTask", "updateTask", "toggleComplete", "deleteTask",
                            "indentTask", "outdentTask", "clearCompleted"}
           /\ last'.ret \in {"task", "count"})
          => (statsCache' = NoStats /\ searchCache' = <<>>)
       /\ last'.op = "reorderTasks"
          => UNCHANGED <<searchCache, statsCache, statsCacheTime>>]_vars

\* a reorderTasks that moved a task while both caches held a value
C17_Witness ==
    /\ last.op = "reorderTasks" /\ last.ret = "true"
    /\ searchCache # <<>>
    /\ statsCache # NoStats

(***************************************************************************)
(* C18: for any query Q and task text T, if T contains Q, letter case      *)
(* ignored, the task is in the result of searchTasks(Q).                   *)
(***************************************************************************)
C18_SearchSuperset ==
    [][Searching =>
          \A i \in 1..Len(tasks) :
             Includes(ToLowerCase(tasks[i].text), ToLowerCase(last'.arg))
             => \E n \in 1..Len(last'.val) : last'.val[n] = tasks[i]]_vars

(***************************************************************************)
(* C19: for a query that is not empty, searchTasks returns, in the order   *)
(* of the collection, the tasks whose text contains the trimmed            *)
(* lower-cased query, letter case ignored, or contains the characters of   *)
(* that query in order with anything in between, and no other task.        *)
(***************************************************************************)
C19_SearchExactly ==
    [][(Searching /\ last'.arg # <<>>) =>
          LET term == SearchTerm(last'.arg)
          IN  /\ last'.ret # "throw"
              /\ last'.val =
                    SelectSeq(tasks, LAMBDA task :
                        \/ Includes(ToLowerCase(task.text), term)
                        \/ IsSubsequence(term, ToLowerCase(task.text)))]_vars

(***************************************************************************)
(* C20: getStats gives total = the number of tasks, completed = the number *)
(* of completed tasks, active = total - completed and completionRate =     *)
(* completed / total as a percentage rounded to an integer, 0 for no       *)
(* tasks; it computes them when no value is cached or the cached value is  *)
(* 100 ms old or older, and returns the cached object itself otherwise, so *)
(* two calls within 100 ms with no change in between return the same       *)
(* object.                                                                 *)
(***************************************************************************)
C20_StatsComputedOrCached ==
    [][last'.op = "getStats" =>
          IF statsCache = NoStats \/ now - statsCacheTime >= 100
          THEN LET total == Len(tasks)
                   completed == Len(SelectSeq(tasks, LAMBDA t : t.completed))
               IN  /\ last'.ret = "computed"
                   /\ last'.val.total = total
                   /\ last'.val.completed = completed
                   /\ last'.val.active = total - completed
                   /\ last'.val.completionRate =
                         IF total = 0 THEN 0
                         ELSE CHOOSE r \in 0..100 :
                                 /\ 2 * completed * 100 - total < 2 * r * total
                                 /\ 2 * r * total <= 2 * completed * 100 + total
                   /\ statsCache' = last'.val
          ELSE /\ last'.ret = "cached"
               /\ last'.val = statsCache
               /\ statsCache' = statsCache]_vars

\* the second of two getStats calls 99 ms apart: the cached object for three tasks,
\* two of them completed, is returned
C20_Witness ==
    /\ last.op = "getStats" /\ last.ret = "cached"
    /\ now - statsCacheTime = 99
    /\ Len(tasks) = 3
    /\ last.val.total = 3 /\ last.val.completed = 2 /\ last.val.completionRate = 67

(***************************************************************************)
(* C21: the search cache never holds more than 100 entries, and a result   *)
(* stored while the cache is full (100 entries) takes the place of the     *)
(* entry inserted first, whichever entries were read since.                *)
(***************************************************************************)
C21_CacheBoundedOldestEvicted ==
    [][/\ Len(searchCache') <= 100
       /\ (Searching /\ last'.ret = "results" /\ Len(searchCache) >= 100) =>
             /\ Len(searchCache') = Len(searchCache)
             /\ \A e \in 1..(Len(searchCache) - 1) : searchCache'[e] = searchCache[e + 1]
             /\ searchCache'[Len(searchCache')].results = last'.val]_vars

(***************************************************************************)
(* C22: whenever importFromJSON returns false, the collection and          *)
(* currentId are as they were before the call.                             *)
(***************************************************************************)
C22_FailedImportChangesNothing ==
    [][(last'.op = "importFromJSON" /\ last'.ret = "false") =>
          (tasks' = tasks /\ currentId' = currentId)]_vars

(***************************************************************************)
(* C23: importFromJSON of the string that exportToJSON has just returned   *)
(* succeeds and leaves the collection as it was, field for field and in    *)
(* the same order, with currentId at least one more than every id in it.   *)
(***************************************************************************)
C23_ExportImportRoundTrip ==
    [][(last.op = "exportToJSON" /\ last'.op = "importFromJSON" /\ last'.val = exported) =>
          /\ last'.ret = "true"
          /\ tasks' = tasks
          /\ \A i \in 1..Len(tasks') : currentId' >= tasks'[i].id + 1]_vars

(***************************************************************************)
\* the counter c is above the id of every task of ts
CounterAbove(ts, c) == \A i \in 1..Len(ts) : ts[i] # NullEntry => c > ts[i].id

(***************************************************************************)
(* C24: after an importFromJSON that succeeds, the collection is the       *)
(* imported array and currentId is max(imported ids, 0) + 1, above every   *)
(* imported id.  From then on, until the collection is replaced again by   *)
(* importFromJSON, loadTasks or clearAll, currentId stays above every id   *)
(* of the collection and createTask gives the new task the id currentId:   *)
(* an id that no imported task has.                                        *)
(***************************************************************************)
C24_ImportSetsCounter ==
    [][/\ (last'.op = "importFromJSON" /\ last'.ret = "true") =>
             /\ tasks' = last'.val.tasks
             /\ CounterAbove(tasks', currentId')
             /\ \/ currentId' = 1
                \/ \E i \in 1..Len(tasks') : currentId' = tasks'[i].id + 1
       /\ (last'.op \notin {"importFromJSON", "loadTasks", "clearAll"}
           /\ CounterAbove(tasks, currentId)) =>
             CounterAbove(tasks', currentId')
       /\ (Returned("createTask") /\ CounterAbove(tasks, currentId)) =>
             /\ tasks'[Len(tasks')].id = currentId
             /\ \A i \in 1..Len(tasks) :
                   tasks[i] # NullEntry => tasks[i].id # tasks'[Len(tasks')].id]_vars

\* a task created after the import of a list whose only task has id 2
C24_Witness ==
    /\ last.op = "createTask" /\ last.ret = "task"
    /\ Len(tasks) = 2
    /\ tasks[1] = HandWritten.tasks[1]
    /\ tasks[2].id = 3

(***************************************************************************)
(* C25: a saveTasks that fails returns false and a loadTasks that finds no *)
(* record, or a record that cannot be read, returns false; the collection  *)
(* and currentId are then as they were before the call.                    *)
(***************************************************************************)
C25_FailedSaveAndLoad ==
    [][/\ (last'.op = "loadTasks" /\ storage.kind \in {"none", "garbage"}) =>
             last'.ret = "false"
       /\ (last'.op \in {"saveTasks", "loadTasks"} /\ last'.ret = "false") =>
             (tasks' = tasks /\ currentId' = currentId)]_vars

\* a loadTasks that failed on a stored string that is no JSON, with a task in the
\* collection
C25_Witness ==
    /\ last.op = "loadTasks" /\ last.ret = "false"
    /\ storage = Garbage
    /\ Len(tasks) >= 1

(***************************************************************************)
(* C26: loadTasks, with the record of a successful saveTasks in storage,   *)
(* returns true and restores the saved collection, in order and field by   *)
(* field, and the saved currentId; a stored task without parentId or       *)
(* indentLevel is loaded with parentId none and indentLevel 0.             *)
(***************************************************************************)
C26_SaveLoadRoundTrip ==
    [][(last'.op = "loadTasks" /\ storage.kind = "json") =>
          /\ last'.ret = "true"
          /\ currentId' = storage.currentId
          /\ Len(tasks') = Len(storage.tasks)
          /\ \A i \in 1..Len(tasks') :
                LET stored == storage.tasks[i]
                IN  /\ tasks'[i].parentId =
                          IF stored.parentId = Undefined THEN Null ELSE stored.parentId
                    /\ tasks'[i].indentLevel =
                          IF stored.indentLevel = Undefined THEN 0 ELSE stored.indentLevel
                    /\ tasks'[i].id = stored.id
                    /\ tasks'[i].text = stored.text
                    /\ tasks'[i].completed = stored.completed
                    /\ tasks'[i].createdAt = stored.createdAt
                    /\ tasks'[i].updatedAt = stored.updatedAt]_vars

\* the text between its first and its last character that is not a blank
Stripped(s) ==
    LET solid == {i \in 1..Len(s) : s[i] # " "}
    IN  IF solid = {} THEN <<>>
        ELSE SubSeq(s, CHOOSE i \in solid : \A j \in solid : i <= j,
                       CHOOSE i \in solid : \A j \in solid : i >= j)

\* the id a call was given
GivenId(call) == IF call.arg # Null THEN call.arg ELSE call.val

TakesId == {"updateTask", "toggleComplete", "deleteTask", "indentTask", "outdentTask"}

(***************************************************************************)
(* C27: createTask with a text that is empty or made of blanks only        *)
(* returns none, adds no task and leaves the collection and currentId as   *)
(* they were.                                                              *)
(***************************************************************************)
C27_BlankTextRejected ==
    [][(last'.op = "createTask" /\ Stripped(last'.val) = <<>>) =>
          /\ last'.ret = "null"
          /\ tasks' = tasks
          /\ currentId' = currentId]_vars

\* createTask(" ") has returned none with a task in the collection
C27_Witness ==
    /\ last.op = "createTask" /\ last.ret = "null"
    /\ last.val = BlankText
    /\ Len(tasks) >= 1

(***************************************************************************)
(* C28: updateTask with the id of a task of the collection returns the     *)
(* task, sets its text to the trimmed argument and its updatedAt to the    *)
(* time of the call, leaves its other fields and every other task as they  *)
(* were, and keeps the task in the collection, also when the trimmed text  *)
(* is empty.                                                               *)
(***************************************************************************)
C28_UpdateSetsTextOnly ==
    [][(last'.op = "updateTask" /\ GivenId(last') \in IdsOf(tasks)) =>
          /\ last'.ret = "task"
          /\ Len(tasks') = Len(tasks)
          /\ \A i \in 1..Len(tasks) :
                IF tasks[i].id = GivenId(last')
                THEN /\ tasks'[i].text = Stripped(last'.val)
                     /\ tasks'[i].updatedAt = now
                     /\ tasks'[i].id = tasks[i].id
                     /\ tasks'[i].completed = tasks[i].completed
                     /\ tasks'[i].parentId = tasks[i].parentId
                     /\ tasks'[i].indentLevel = tasks[i].indentLevel
                     /\ tasks'[i].createdAt = tasks[i].createdAt
                ELSE tasks'[i] = tasks[i]]_vars

\* updateTask(id, " ") has returned the task, which is still there with an empty
\* text and an updatedAt later than its createdAt, beside another task
C28_Witness ==
    /\ last.op = "updateTask" /\ last.ret = "task"
    /\ last.val = BlankText
    /\ Len(tasks) = 2
    /\ \E i \in 1..Len(tasks) :
          /\ tasks[i].id = last.arg
          /\ tasks[i].text = <<>>
          /\ tasks[i].updatedAt > tasks[i].createdAt

(***************************************************************************)
(* C29: updateTask, toggleComplete, deleteTask, indentTask and outdentTask *)
(* with an id that no task of the collection has return none and leave     *)
(* the collection, currentId and both caches as they were.                 *)
(***************************************************************************)
C29_AbsentIdChangesNothing ==
    [][(last'.op \in TakesId /\ GivenId(last') \notin IdsOf(tasks)) =>
          /\ last'.ret = "null"
          /\ tasks' = tasks
          /\ currentId' = currentId
          /\ searchCache' = searchCache
          /\ statsCache' = statsCache
          /\ statsCacheTime' = statsCacheTime]_vars

\* a call with an id that no task has, has returned none with a search result and
\* the stats in the caches
C29_Witness ==
    /\ last.op \in TakesId /\ last.ret = "null"
    /\ last.arg = Null
    /\ last.val \notin IdsOf(tasks)
    /\ Len(tasks) >= 1
    /\ searchCache # <<>>
    /\ statsCache # NoStats

\* the positions of the tasks of ts whose parentId is id
ChildrenAt(ts, id) == {i \in 1..Len(ts) : ts[i].parentId = id}

(***************************************************************************)
(* C30: getSubtaskStats(p) counts the tasks whose parentId is p, the       *)
(* direct children and no deeper descendant: total is their number,        *)
(* completed the number of completed ones, active the rest.  For a task    *)
(* with one subtask it gives total 1, completed 0, active 1 while the      *)
(* subtask is active; toggling that subtask complete completes the parent, *)
(* and the stats are then total 1, completed 1, active 0.                  *)
(***************************************************************************)
C30_SubtaskStatsDirectChildren ==
    [][/\ last'.op = "getSubtaskStats" =>
             /\ last'.val.total = Cardinality(ChildrenAt(tasks, last'.arg))
             /\ last'.val.completed =
                   Cardinality({i \in ChildrenAt(tasks, last'.arg) : tasks[i].completed})
             /\ last'.val.total = last'.val.completed + last'.val.active
             /\ tasks' = tasks
       /\ (/\ last'.op = "toggleComplete" /\ last'.ret = "task"
           /\ ~TaskOf(tasks, last'.arg).completed
           /\ HasTask(tasks, TaskOf(tasks, last'.arg).parentId)
           /\ Cardinality(ChildrenAt(tasks, TaskOf(tasks, last'.arg).parentId)) = 1) =>
             /\ TaskOf(tasks', TaskOf(tasks, last'.arg).parentId).completed
             /\ \A i \in ChildrenAt(tasks', TaskOf(tasks, last'.arg).parentId) :
                   tasks'[i].completed]_vars

\* task 1 with the one subtask 2, which has the subtask 3: task 2 was toggled complete
\* before task 3 was created, task 1 is complete, and getSubtaskStats(1) has given
\* total 1, completed 1, active 0
C30_Witness ==
    /\ last.op = "getSubtaskStats" /\ last.arg = 1
    /\ last.val = [total |-> 1, completed |-> 1, active |-> 0]
    /\ Len(tasks) = 3
    /\ tasks[1].id = 1 /\ tasks[1].completed
    /\ tasks[2].parentId = 1 /\ tasks[2].completed
    /\ tasks[3].parentId = tasks[2].id /\ ~tasks[3].completed

\* ts without its element at position i
Without(ts, i) == [j \in 1..(Len(ts) - 1) |-> IF j < i THEN ts[j] ELSE ts[j + 1]]

(***************************************************************************)
(* C31: reorderTasks(from, to) with from = to returns false and changes    *)
(* nothing; with two distinct positions of the collection it returns true, *)
(* the task that was at from is at to, the other tasks keep their order,   *)
(* and every task is as it was, field for field.                           *)
(***************************************************************************)
C31_ReorderMovesOne ==
    [][last'.op = "reorderTasks" =>
          LET from == last'.val[1]
              to == last'.val[2]
          IN  /\ from = to => (last'.ret = "false" /\ tasks' = tasks)
              /\ (from # to /\ from \in 0..(Len(tasks) - 1) /\ to \in 0..(Len(tasks) - 1)) =>
                    /\ last'.ret = "true"
                    /\ Len(tasks') = Len(tasks)
                    /\ tasks'[to + 1] = tasks[from + 1]
                    /\ Without(tasks', to + 1) = Without(tasks, from + 1)]_vars

\* reorderTasks(0, 2) has moved the first of three tasks to the end
C31_Witness ==
    /\ last.op = "reorderTasks" /\ last.ret = "true"
    /\ last.val = <<0, 2>>
    /\ Len(tasks) = 3
    /\ Dense
    /\ tasks[1].id = 2 /\ tasks[2].id = 3 /\ tasks[3].id = 1

(***************************************************************************)
(* C35: for any pair of integers as indices, those outside the collection  *)
(* with them, the collection after reorderTasks holds the same tasks as    *)
(* before, as many as before, and no undefined element.                    *)
(***************************************************************************)
C35_ReorderPermutes ==
    [][last'.op = "reorderTasks" =>
          /\ Len(tasks') = Len(tasks)
          /\ SeqToSet(tasks') = SeqToSet(tasks)
          /\ \A i \in 1..Len(tasks') : tasks'[i] # UndefinedEntry]_vars

(***************************************************************************)
(* C34: in every state reached through createTask, indentTask,             *)
(* outdentTask, reorderTasks, deleteTask and clearCompleted no task is its *)
(* own ancestor in the parentId relation, and no toggleComplete or         *)
(* deleteTask ends in the stack overflow of a walk that does not return.   *)
(***************************************************************************)
C34_ParentRelationAcyclic ==
    /\ \A i \in 1..Len(tasks) : tasks[i].id \notin DescendantsOf(tasks, tasks[i].id)
    /\ last.ret # "throw"

(***************************************************************************)
(* C36: the getStats call that follows a successful importFromJSON, a      *)
(* successful loadTasks or a clearAll returns the counts of the collection *)
(* as replaced, never a value cached before the replacement.               *)
(***************************************************************************)
C36_StatsAfterReplacement ==
    [][(/\ \/ last.op = "clearAll"
           \/ last.op \in {"importFromJSON", "loadTasks"} /\ last.ret = "true"
        /\ last'.op = "getStats") =>
          /\ last'.val.total = Len(tasks)
          /\ last'.val.completed = Cardinality({i \in 1..Len(tasks) : tasks[i].completed})
          /\ last'.val.active = last'.val.total - last'.val.completed]_vars

(***************************************************************************)
(* C37: after a loadTasks that succeeds, currentId is above the id of      *)
(* every loaded task, also when the stored record has no currentId, so the *)
(* next createTask gives an id that no loaded task has.                    *)
(***************************************************************************)
C37_LoadKeepsCounterAbove ==
    [][(last'.op = "loadTasks" /\ last'.ret = "true") =>
          \A i \in 1..Len(tasks') : currentId' > tasks'[i].id]_vars

(***************************************************************************)
(* C38: an indentTask or outdentTask that succeeds changes the             *)
(* indentLevel, parentId and updatedAt of its target and nothing else: the *)
(* target keeps its id, text, completed and createdAt, every other task,   *)
(* the target's descendants with them, is as it was, and the collection    *)
(* keeps its order.                                                        *)
(***************************************************************************)
C38_IndentOutdentTargetOnly ==
    [][(Returned("indentTask") \/ Returned("outdentTask")) =>
          /\ Len(tasks') = Len(tasks)
          /\ \A i \in 1..Len(tasks) :
                IF tasks[i].id = last'.arg
                THEN /\ tasks'[i].id = tasks[i].id
                     /\ tasks'[i].text = tasks[i].text
                     /\ tasks'[i].completed = tasks[i].completed
                     /\ tasks'[i].createdAt = tasks[i].createdAt
                ELSE tasks'[i] = tasks[i]]_vars

\* outdentTask has moved a completed task of level 1 to the top level, and the
\* subtask below it is still at level 2 with the task as its parent
C38_Witness ==
    /\ last.op = "outdentTask" /\ last.ret = "task"
    /\ \E i, j \in 1..Len(tasks) :
          /\ tasks[i].id = last.arg
          /\ tasks[i].indentLevel = 0
          /\ tasks[i].completed
          /\ tasks[j].parentId = last.arg
          /\ tasks[j].indentLevel = 2

(***************************************************************************)
(* C39: in every state reached through createTask, toggleComplete,         *)
(* indentTask, outdentTask and deleteTask a completed task has no direct   *)
(* subtask that is not completed.                                          *)
(***************************************************************************)
C39_CompletedParentHasNoOpenChild ==
    \A i, j \in 1..Len(tasks) :
        (tasks[i].completed /\ tasks[j].parentId = tasks[i].id) => tasks[j].completed

\* the step is the handler or callback name of the controller
Handled(name) == app'.mounted /\ app'.handler = name

(***************************************************************************)
(* C32: pressing Enter on a task (createTaskBelow) creates a new task in   *)
(* the collection, immediately after the current task and at the current   *)
(* task's indent level, so that the collection grows by one task.          *)
(***************************************************************************)
C32_EnterCreatesBelow ==
    [][(Handled("createTaskBelow") /\ ShownIds \subseteq IdsOf(tasks))
       => /\ Len(tasks') = Len(tasks) + 1
          /\ \E i \in 1..Len(tasks) :
                /\ tasks'[i].id = tasks[i].id
                /\ tasks'[i + 1].id \notin IdsOf(tasks)
                /\ tasks'[i + 1].indentLevel = tasks[i].indentLevel]_vars

(***************************************************************************)
(* C33: every successful change of the engine's state made through the     *)
(* controller (add, toggle, text edit, the edit done by createTaskBelow,   *)
(* delete, indent, outdent, clear completed) schedules an auto-save: after *)
(* the handler a save timer is pending.                                    *)
(***************************************************************************)
C33_ChangeSchedulesSave ==
    [][(app'.mounted /\ tasks' # tasks) => app'.saveTimer]_vars

(***************************************************************************)
(* C40: after a successful toggleTask, indentTask or outdentTask of the    *)
(* controller the list is rebuilt: once the frame the handler requested    *)
(* has run, the list shows the current completed flag and indent level of  *)
(* every task.                                                             *)
(***************************************************************************)
C40_HandlerRebuildsList ==
    [][((Handled("toggleTask") \/ Handled("indentTask") \/ Handled("outdentTask"))
          /\ last'.ret = "task")
       => (IF app'.rafId THEN ViewOf(tasks') ELSE app'.view) = ViewOf(tasks')]_vars

====
